---- MODULE Spec2Model ----
(***************************************************************************)
(* Model of the terminal countdown timer (src/src/main.rs): main, the      *)
(* terminal set-up and tear-down, the run_timer poll/read/draw loop and    *)
(* the Timer widget's render function.                                     *)
(*                                                                         *)
(* Time is a Duration [secs, nanos] measured from start_time.  The f32     *)
(* arithmetic of the percent and bar computations is modelled bit-exactly  *)
(* (24-bit significand, round to nearest, ties to even).                   *)
(***************************************************************************)
EXTENDS Integers, Sequences, FiniteSets, TLC

(***************************************************************************)
(* Bounds of the model.                                                    *)
(***************************************************************************)
\* most events the user produces in one run
MaxEvents == 1
\* most iterations of the run_timer loop in one run
MaxIter == 3
\* largest percent handed to Timer::render when it is checked on its own
MaxPercent == 200

(***************************************************************************)
(* IEEE-754 binary32, non-negative values: [m, e] stands for m * 2^e with  *)
(* m = 0 or 2^23 <= m < 2^24; F32Inf and F32NaN are the results of x/0.    *)
(***************************************************************************)
F32Zero == [m |-> 0, e |-> 0]
F32Inf == [m |-> -1, e |-> 0]
F32NaN == [m |-> -2, e |-> 0]

BitLen(n) ==
  IF n = 0 THEN 0
  ELSE CHOOSE k \in 1..31 : n >= 2^(k-1) /\ (k = 31 \/ n < 2^k)

\* (n + s) * 2^e rounded to 24 bits, where 0 < s < 1 if sticky and s = 0 if not
F32Round(n, sticky, e) ==
  IF n = 0 THEN F32Zero
  ELSE LET bits == BitLen(n) IN
    IF bits <= 24
    THEN [m |-> n * 2^(24 - bits), e |-> e - (24 - bits)]
    ELSE LET sh == bits - 24
             hi == n \div 2^sh
             lo == n % 2^sh
             half == 2^(sh - 1)
             up == lo > half \/ (lo = half /\ (sticky \/ hi % 2 = 1))
             r == IF up THEN hi + 1 ELSE hi
         IN IF r = 2^24 THEN [m |-> 2^23, e |-> e + sh + 1]
                        ELSE [m |-> r, e |-> e + sh]

\* `n as f32` for an unsigned integer n
F32FromInt(n) == F32Round(n, FALSE, 0)

RECURSIVE DivBits(_, _, _, _)
DivBits(r, d, q, k) ==
  IF k = 0 THEN <<q, r>>
  ELSE IF 2 * r >= d THEN DivBits(2 * r - d, d, 2 * q + 1, k - 1)
                     ELSE DivBits(2 * r, d, 2 * q, k - 1)

\* a / b
F32Div(a, b) ==
  IF a.m < 0 THEN a
  ELSE IF b.m = 0 THEN (IF a.m = 0 THEN F32NaN ELSE F32Inf)
  ELSE IF a.m = 0 THEN F32Zero
  ELSE LET qr == DivBits(a.m % b.m, b.m, a.m \div b.m, 26)
       IN F32Round(qr[1], qr[2] # 0, a.e - b.e - 26)

RECURSIVE StripZeros(_)
StripZeros(a) ==
  IF a.m > 0 /\ a.m % 2 = 0 THEN StripZeros([m |-> a.m \div 2, e |-> a.e + 1])
  ELSE a

\* a * b (the product of the two odd parts stays below 2^31 for the operands used)
F32Mul(a, b) ==
  IF a.m = -2 \/ b.m = -2 THEN F32NaN
  ELSE IF a.m = -1 \/ b.m = -1
       THEN (IF a.m = 0 \/ b.m = 0 THEN F32NaN ELSE F32Inf)
  ELSE IF a.m = 0 \/ b.m = 0 THEN F32Zero
  ELSE LET x == StripZeros(a)
           y == StripZeros(b)
       IN F32Round(x.m * y.m, FALSE, x.e + y.e)

\* a + b, with guard, round and sticky bits
F32Add(a, b) ==
  IF a.m = 0 THEN b
  ELSE IF b.m = 0 THEN a
  ELSE LET hi == IF a.e >= b.e THEN a ELSE b
           lo == IF a.e >= b.e THEN b ELSE a
           d == hi.e - lo.e
           l8 == lo.m * 8
           sh == IF d >= 27 THEN 0 ELSE l8 \div 2^d
           st == IF d >= 27 THEN TRUE ELSE l8 % 2^d # 0
       IN F32Round(hi.m * 8 + sh, st, hi.e - 3)

\* a < b
F32Lt(a, b) ==
  IF b.m = 0 THEN FALSE
  ELSE IF a.m = 0 THEN TRUE
  ELSE a.e < b.e \/ (a.e = b.e /\ a.m < b.m)

\* `a as u16`: truncation toward zero, saturating, NaN to 0
F32ToU16(a) ==
  IF a.m = -2 THEN 0
  ELSE IF a.m = -1 THEN 65535
  ELSE IF a.m = 0 THEN 0
  ELSE IF a.e >= 0 THEN 65535
  ELSE IF -a.e >= 24 THEN 0
  ELSE LET v == a.m \div 2^(-a.e) IN IF v > 65535 THEN 65535 ELSE v


\* `a as usize`, for the values the model reaches (below 2^31)
F32ToUsize(a) ==
  IF a.m <= 0 THEN 0
  ELSE IF a.e >= 7 THEN 2147483647
  ELSE IF a.e >= 0 THEN a.m * 2^a.e
  ELSE IF -a.e >= 24 THEN 0
  ELSE a.m \div 2^(-a.e)

(***************************************************************************)
(* std::time::Duration: whole seconds and nanoseconds below 10^9.          *)
(***************************************************************************)
NanosPerSec == 1000000000

Dur(s, n) == [secs |-> s, nanos |-> n]
Millis(ms) == Dur(ms \div 1000, (ms % 1000) * 1000000)
DurZero == Dur(0, 0)

DurLt(a, b) == a.secs < b.secs \/ (a.secs = b.secs /\ a.nanos < b.nanos)
DurLe(a, b) == a = b \/ DurLt(a, b)

DurAdd(a, b) ==
  LET n == a.nanos + b.nanos
  IN IF n >= NanosPerSec THEN Dur(a.secs + b.secs + 1, n - NanosPerSec)
                         ELSE Dur(a.secs + b.secs, n)

\* Duration - Duration panics when the result would be negative
SubPanic == Dur(-1, 0)
DurSub(a, b) ==
  IF DurLt(a, b) THEN SubPanic
  ELSE IF a.nanos >= b.nanos THEN Dur(a.secs - b.secs, a.nanos - b.nanos)
  ELSE Dur(a.secs - b.secs - 1, a.nanos + NanosPerSec - b.nanos)

\* Duration::as_secs_f32: (secs as f32) + (nanos as f32) / (NANOS_PER_SEC as f32)
AsSecsF32(d) ==
  F32Add(F32FromInt(d.secs), F32Div(F32FromInt(d.nanos), F32FromInt(NanosPerSec)))

(***************************************************************************)
(* The duration argument: a sequence of characters.                        *)
(***************************************************************************)
Digits == {"0", "1", "2", "3", "4", "5", "6", "7", "8", "9"}
Letters == {"a", "b", "c", "d", "e", "f", "g", "h", "i", "j", "k", "l", "m",
            "n", "o", "p", "q", "r", "s", "t", "u", "v", "w", "x", "y", "z"}
DigitVal(c) ==
  CASE c = "0" -> 0 [] c = "1" -> 1 [] c = "2" -> 2 [] c = "3" -> 3
    [] c = "4" -> 4 [] c = "5" -> 5 [] c = "6" -> 6 [] c = "7" -> 7
    [] c = "8" -> 8 [] c = "9" -> 9

ParseErr == Dur(-2, 0)

RECURSIVE DecimalValue(_, _, _)
DecimalValue(tok, i, acc) ==
  IF i > Len(tok) THEN acc
  ELSE IF tok[i] \notin Digits THEN -1
  ELSE DecimalValue(tok, i + 1, 10 * acc + DigitVal(tok[i]))

\* str::parse::<u64>: an optional '+' and at least one decimal digit; -1 is Err
\* (the tokens of the model are too short to overflow a u64)
ParseU64(tok) ==
  LET body == IF tok # <<>> /\ tok[1] = "+" THEN Tail(tok) ELSE tok
  IN IF body = <<>> THEN -1 ELSE DecimalValue(body, 1, 0)

\* a unit table that takes an unknown unit for seconds
UnitValueDefaultSeconds(n, unit) ==
  CASE unit = <<"h">> -> Dur(n * 3600, 0)
    [] unit = <<"m">> -> Dur(n * 60, 0)
    [] unit = <<"m", "s">> -> Dur(n \div 1000, (n % 1000) * 1000000)
    [] OTHER -> Dur(n, 0)

\* humantime: the value of n units, for the units the help text names
UnitValue(n, unit) ==
  CASE unit = <<"h">> -> Dur(n * 3600, 0)
    [] unit = <<"m">> -> Dur(n * 60, 0)
    [] unit = <<"s">> -> Dur(n, 0)
    [] unit = <<"m", "s">> -> Dur(n \div 1000, (n % 1000) * 1000000)
    [] OTHER -> ParseErr

\* humantime::parse_duration: a non-empty sequence of <number><unit> items;
\* phase is "num" while reading a number and "unit" while reading its unit
RECURSIVE HumanItems(_, _, _, _, _, _)
HumanItems(tok, i, phase, n, start, acc) ==
  LET item == UnitValue(n, SubSeq(tok, start, i - 1)) IN
  IF phase = "num"
  THEN IF i > Len(tok) THEN ParseErr
       ELSE IF tok[i] \in Digits
            THEN HumanItems(tok, i + 1, "num", 10 * n + DigitVal(tok[i]), start, acc)
       ELSE IF tok[i] \in Letters
            THEN HumanItems(tok, i + 1, "unit", n, i, acc)
       ELSE ParseErr
  ELSE IF i > Len(tok)
       THEN (IF item = ParseErr THEN ParseErr ELSE DurAdd(acc, item))
       ELSE IF tok[i] \in Digits
            THEN (IF item = ParseErr THEN ParseErr
                  ELSE HumanItems(tok, i + 1, "num", DigitVal(tok[i]), start,
                                  DurAdd(acc, item)))
       ELSE IF tok[i] \in Letters
            THEN HumanItems(tok, i + 1, "unit", n, start, acc)
       ELSE ParseErr

ParseHumanDuration(tok) ==
  IF tok = <<>> \/ tok[1] \notin Digits THEN ParseErr
  ELSE HumanItems(tok, 2, "num", DigitVal(tok[1]), 1, DurZero)

\* run_timer's resolution of cli.duration: bare integer seconds first, then humantime
ResolveDuration(tok) ==
  IF ParseU64(tok) # -1 THEN Dur(ParseU64(tok), 0)
  ELSE ParseHumanDuration(tok)


(***************************************************************************)
(* Timer::render and draw_timer.                                           *)
(***************************************************************************)
\* draw_timer: the gradient table has `steps` entries
steps == 100

\* run_timer's draw closure: (elapsed / duration * 100.0) as u16
Percent(elapsed_time, total) ==
  F32ToU16(F32Mul(F32Div(AsSecsF32(elapsed_time), AsSecsF32(total)), F32FromInt(100)))

\* a closure without the early return
DrawNeverSkipped(elapsed_time, total) == FALSE

\* the draw closure returns without drawing when elapsed_time > duration
DrawSkipped(elapsed_time, total) == DurLt(total, elapsed_time)

\* format!("{}%", percent).len()
LabelLen(percent) ==
  IF percent < 10 THEN 2
  ELSE IF percent < 100 THEN 3
  ELSE IF percent < 1000 THEN 4
  ELSE IF percent < 10000 THEN 5
  ELSE 6

\* area.width - percent.len() as u16 goes below zero
LabelUnderflows(percent, width) == width < LabelLen(percent)

\* the column of the label when the u16 subtraction wraps
LabelCol(percent, width) == (width + 65536 - LabelLen(percent)) % 65536

\* (percent as f32 / 100.0 * area.width as f32) as u16
CellsToDraw(percent, width) ==
  F32ToU16(F32Mul(F32Div(F32FromInt(percent), F32FromInt(100)), F32FromInt(width)))

\* an index computed from the cell's right edge
GradientIndexRightEdge(i, width) ==
  F32ToUsize(F32Mul(F32Div(F32FromInt(i + 1), F32FromInt(width)), F32FromInt(steps)))

\* (i as f32 / area.width as f32 * gradient.len() as f32) as usize
GradientIndex(i, width) ==
  F32ToUsize(F32Mul(F32Div(F32FromInt(i), F32FromInt(width)), F32FromInt(steps)))

\* the fill loop from cell i on: the first cell whose gradient index is outside
\* the table (the indexing panics there), or -1 when the loop completes
FillPanicAt(i, cells, width) ==
  LET outside == {j \in i..(cells - 1) : GradientIndex(j, width) >= steps}
  IN IF outside = {} THEN -1
     ELSE CHOOSE j \in outside : \A k \in outside : j <= k

\* the cells the fill loop colours before it ends or panics
FilledCells(percent, width) ==
  LET cells == CellsToDraw(percent, width)
      stop == FillPanicAt(0, cells, width)
  IN IF stop = -1 THEN 0..(cells - 1) ELSE 0..(stop - 1)

\* the gradient indices the fill loop reads, the one it panics on included
GradientReads(percent, width) ==
  LET cells == CellsToDraw(percent, width)
      stop == FillPanicAt(0, cells, width)
      last == IF stop = -1 THEN cells - 1 ELSE stop
  IN {GradientIndex(i, width) : i \in 0..last}

\* how a call of Timer::render can end.  A label column below zero panics in a
\* build with overflow checks; without them it wraps to a column outside the
\* buffer, where the write panics or is dropped depending on the buffer's
\* bounds handling.  A gradient index outside the table always panics.
RenderOutcomes(percent, width) ==
  IF FillPanicAt(0, CellsToDraw(percent, width), width) # -1 THEN {"panic"}
  ELSE IF LabelUnderflows(percent, width) THEN {"panic", "ok"}
  ELSE {"ok"}


(***************************************************************************)
(* The program state.                                                      *)
(***************************************************************************)
VARIABLES
  cli,              \* the parsed command line: [duration, notify]
  pc,               \* the position of main
  now,              \* the monotonic clock: time since start_time
  duration,         \* run_timer's resolved duration
  queue,            \* the terminal's pending input events
  pressed,          \* number of events produced so far
  pollStart,        \* the clock when the current event::poll began
  nPoll,            \* calls of event::poll
  nRead,            \* calls of event::read
  nDraw,            \* calls of terminal.draw
  notifications,    \* the notifications shown
  rawMode,          \* the terminal is in raw mode
  altScreen,        \* the terminal shows the alternate screen
  cursorHidden,     \* the cursor is hidden
  hookSet,          \* initialize's panic hook is installed
  runState,         \* Idle, Running, CancelledByUser, CompletedNormally, Failed
  app_result,       \* run_timer's return value
  exitRan,          \* how main's call of exit went
  stderr,           \* what the process wrote to standard error
  exitCode,         \* the process exit code, -1 while running
  lastFrame,        \* the last call of draw_timer
  prevPercent       \* the percent of the call of draw_timer before it, or -1

vars == <<cli, pc, now, duration, queue, pressed, pollStart,
          nPoll, nRead, nDraw, notifications, rawMode, altScreen, cursorHidden,
          hookSet, runState, app_result, exitRan, stderr, exitCode, lastFrame,
          prevPercent>>

termVars == <<rawMode, altScreen, cursorHidden, hookSet>>
loopVars == <<pollStart, nPoll, nRead, nDraw>>
frameVars == <<lastFrame, prevPercent>>
envVars == <<now, queue, pressed>>
outVars == <<exitRan, stderr, exitCode>>

\* the duration arguments tried
Tokens ==
  { <<"0">>, <<"1">>, <<"2", "0", "m", "s">>,
    <<"b", "a", "n", "a", "n", "a">>, <<"-", "5">>, <<"5", "x">> }

\* the readings the clock can show
Instants ==
  { DurZero, Millis(10), Dur(0, 19999999), Millis(20), Millis(40),
    Dur(0, 999999999), Dur(1, 0), Dur(1, 20000000) }

\* the terminal widths a frame can have
Widths == {2, 50}

\* event::poll's timeout
PollTimeout == Millis(20)

KeyCodes == {"Esc", "q", "Q", "x"}
InputEvents ==
  [kind : {"Key"}, code : KeyCodes] \cup {[kind |-> "Resize", code |-> "none"]}

\* a match that forgets the upper-case letter
IsCancelKeyLowerOnly(event) ==
  event.kind = "Key" /\ event.code \in {"Esc", "q"}

\* run_timer's match on the event read
IsCancelKey(event) == event.kind = "Key" /\ event.code \in {"Esc", "q", "Q"}

NoFrame ==
  [percent |-> -1, elapsed |-> DurZero, time_left |-> DurZero, width |-> 0,
   outcome |-> "none"]

RunPcs == {"parse", "notify_start", "loop_cond", "poll", "poll_wait", "read",
           "draw", "notify_end"}

Init ==
  /\ cli \in [duration : Tokens, notify : BOOLEAN]
  /\ pc = "init"
  /\ now = DurZero
  /\ duration = DurZero
  /\ queue = <<>>
  /\ pressed = 0
  /\ pollStart = DurZero
  /\ nPoll = 0
  /\ nRead = 0
  /\ nDraw = 0
  /\ notifications = <<>>
  /\ rawMode = FALSE
  /\ altScreen = FALSE
  /\ cursorHidden = FALSE
  /\ hookSet = FALSE
  /\ runState = "Idle"
  /\ app_result = "none"
  /\ exitRan = "no"
  /\ stderr = <<>>
  /\ exitCode = -1
  /\ lastFrame = NoFrame
  /\ prevPercent = -1

(***************************************************************************)
(* The environment: the clock advances and the user produces events while  *)
(* run_timer runs.                                                         *)
(***************************************************************************)
Advance ==
  /\ pc \in RunPcs
  /\ \E t \in Instants : DurLt(now, t) /\ now' = t
  /\ UNCHANGED <<cli, pc, duration, queue, pressed, loopVars, notifications,
                 termVars, runState, app_result, outVars, frameVars>>

\* the duration has not elapsed yet (a note kept with each event produced)
PressedEarly ==
  LET total == ResolveDuration(cli.duration)
  IN total # ParseErr /\ DurLt(now, total)

UserInput ==
  /\ pc \in RunPcs
  /\ pressed < MaxEvents
  /\ \E ev \in InputEvents :
       queue' = Append(queue, [kind |-> ev.kind, code |-> ev.code,
                               early |-> PressedEarly])
  /\ pressed' = pressed + 1
  /\ UNCHANGED <<cli, pc, now, duration, loopVars, notifications, termVars,
                 runState, app_result, outVars, frameVars>>


(***************************************************************************)
(* main, initialize, exit and the panic hook.                              *)
(***************************************************************************)
\* main returns Err(e) from a `?`: the runtime prints the error and exits with 1
MainFails ==
  /\ stderr' = Append(stderr, "Error: io")
  /\ exitCode' = 1
  /\ pc' = "done"

\* main, lines 10-12: Cli::parse, Terminal::new and initialize, which stops at
\* the first call that fails
MainInit ==
  /\ pc = "init"
  /\ \E fail \in {"none", "new", "raw", "alt", "hide", "clear"} :
       /\ rawMode' = (fail \in {"none", "alt", "hide", "clear"})
       /\ altScreen' = (fail \in {"none", "hide", "clear"})
       /\ hookSet' = (fail \in {"none", "hide", "clear"})
       /\ cursorHidden' = (fail \in {"none", "clear"})
       /\ IF fail = "none"
          THEN pc' = "parse" /\ UNCHANGED <<stderr, exitCode>>
          ELSE MainFails
  /\ UNCHANGED <<cli, envVars, duration, loopVars, notifications, runState,
                 app_result, exitRan, frameVars>>

\* a main that propagates run_timer's error before the cleanup
ExitOnlyAfterOk ==
  /\ pc = "exit"
  /\ IF app_result # "Ok"
     THEN /\ pc' = "report"
          /\ UNCHANGED <<termVars, outVars>>
     ELSE /\ cursorHidden' = FALSE
          /\ rawMode' = FALSE
          /\ altScreen' = FALSE
          /\ exitRan' = "ok"
          /\ pc' = "report"
          /\ UNCHANGED <<hookSet, stderr, exitCode>>
  /\ UNCHANGED <<cli, envVars, duration, loopVars, notifications, runState,
                 app_result, frameVars>>

\* main, line 14: exit shows the cursor and calls reset, stopping at the first
\* call that fails; a failure makes main return the io error
Exit ==
  /\ pc = "exit"
  /\ \E fail \in {"none", "show", "raw", "alt"} :
       /\ cursorHidden' = (cursorHidden /\ fail = "show")
       /\ rawMode' = (rawMode /\ fail \in {"show", "raw"})
       /\ altScreen' = (altScreen /\ fail # "none")
       /\ exitRan' = (IF fail = "none" THEN "ok" ELSE "failed")
       /\ IF fail = "none"
          THEN pc' = "report" /\ UNCHANGED <<stderr, exitCode>>
          ELSE MainFails
  /\ UNCHANGED <<cli, envVars, duration, loopVars, notifications, hookSet,
                 runState, app_result, frameVars>>

\* main, lines 15-18: print run_timer's error, if any, and return Ok(())
MainReport ==
  /\ pc = "report"
  /\ stderr' = (IF app_result = "Ok" THEN stderr ELSE Append(stderr, app_result))
  /\ exitCode' = 0
  /\ pc' = "done"
  /\ UNCHANGED <<cli, envVars, duration, loopVars, notifications, termVars,
                 runState, app_result, exitRan, frameVars>>

\* the hook set by initialize: reset().expect(..), then the previous hook
\* prints the panic and the process exits with 101; a failing reset panics
\* inside the hook, which aborts the process
PanicHook ==
  /\ pc = "panic"
  /\ \E fail \in {"none", "raw", "alt"} :
       /\ rawMode' = (rawMode /\ fail = "raw")
       /\ altScreen' = (altScreen /\ fail # "none")
       /\ stderr' = Append(stderr, IF fail = "none" THEN "panic" ELSE "abort")
       /\ exitCode' = (IF fail = "none" THEN 101 ELSE 134)
  /\ pc' = "done"
  /\ UNCHANGED <<cli, envVars, duration, loopVars, notifications, cursorHidden,
                 hookSet, runState, app_result, exitRan, frameVars>>

(***************************************************************************)
(* run_timer.                                                              *)
(***************************************************************************)
\* run_timer returns Err(kind) to main
ReturnErr(kind) ==
  /\ app_result' = kind
  /\ runState' = "Failed"
  /\ pc' = "exit"

\* lines 101-114: start the clock and resolve the duration
RunParse ==
  /\ pc = "parse"
  /\ duration' = ResolveDuration(cli.duration)
  /\ IF duration' = ParseErr
     THEN ReturnErr("UnknownUnit")
     ELSE pc' = "notify_start" /\ UNCHANGED <<app_result, runState>>
  /\ UNCHANGED <<cli, envVars, loopVars, notifications, termVars, outVars,
                 frameVars>>

\* lines 117-119: the "has started" notification
\* a start of the loop that notifies without looking at cli.notify
NotifyStartUnconditional ==
  /\ pc = "notify_start"
  /\ notifications' = Append(notifications, "started")
  /\ runState' = "Running"
  /\ pc' = "loop_cond"
  /\ UNCHANGED <<cli, envVars, duration, loopVars, termVars, app_result,
                 outVars, frameVars>>

NotifyStart ==
  /\ pc = "notify_start"
  /\ notifications' =
       (IF cli.notify THEN Append(notifications, "started") ELSE notifications)
  /\ runState' = "Running"
  /\ pc' = "loop_cond"
  /\ UNCHANGED <<cli, envVars, duration, loopVars, termVars, app_result,
                 outVars, frameVars>>

\* a loop condition that also enters the body when elapsed = duration
LoopCondLe ==
  /\ pc = "loop_cond"
  /\ IF DurLe(now, duration)
     THEN /\ nPoll < MaxIter
          /\ pc' = "poll"
          /\ UNCHANGED runState
     ELSE /\ runState' = "CompletedNormally"
          /\ pc' = "notify_end"
  /\ UNCHANGED <<cli, envVars, duration, loopVars, notifications, termVars,
                 app_result, outVars, frameVars>>

\* line 122: while start_time.elapsed() < duration
LoopCond ==
  /\ pc = "loop_cond"
  /\ IF DurLt(now, duration)
     THEN /\ nPoll < MaxIter
          /\ pc' = "poll"
          /\ UNCHANGED runState
     ELSE /\ runState' = "CompletedNormally"
          /\ pc' = "notify_end"
  /\ UNCHANGED <<cli, envVars, duration, loopVars, notifications, termVars,
                 app_result, outVars, frameVars>>

\* a poll whose failure is swallowed and retried
PollBeginRetry ==
  /\ pc = "poll"
  /\ nPoll' = nPoll + 1
  /\ pollStart' = now
  /\ \E ok \in BOOLEAN :
       IF ok THEN pc' = "poll_wait" ELSE pc' = "poll" /\ nPoll < MaxIter
  /\ UNCHANGED <<cli, envVars, duration, nRead, nDraw, app_result, runState,
                 notifications, termVars, outVars, frameVars>>

\* line 123: event::poll is called; it fails or starts to wait
PollBegin ==
  /\ pc = "poll"
  /\ nPoll' = nPoll + 1
  /\ pollStart' = now
  /\ \E ok \in BOOLEAN :
       IF ok THEN pc' = "poll_wait" /\ UNCHANGED <<app_result, runState>>
             ELSE ReturnErr("Terminal")
  /\ UNCHANGED <<cli, envVars, duration, nRead, nDraw,
                 notifications, termVars, outVars, frameVars>>

\* lines 123-125: event::poll returns true once an event is pending (the body
\* goes on to read it) and false once the timeout has passed without one
PollEnd ==
  /\ pc = "poll_wait"
  /\ \/ /\ queue # <<>>
        /\ pc' = "read"
     \/ /\ queue = <<>>
        /\ DurLe(DurAdd(pollStart, PollTimeout), now)
        /\ pc' = "draw"
  /\ pollStart' = DurZero
  /\ UNCHANGED <<cli, envVars, duration, nPoll, nRead, nDraw,
                 notifications, termVars, runState, app_result, outVars,
                 frameVars>>

\* lines 126-136: read one event; a cancel key returns Ok(()) at once
Read ==
  /\ pc = "read"
  /\ queue # <<>>
  /\ nRead' = nRead + 1
  /\ \E ok \in BOOLEAN :
       IF ~ok
       THEN ReturnErr("Terminal") /\ UNCHANGED queue
       ELSE /\ queue' = Tail(queue)
            /\ IF IsCancelKey(Head(queue))
               THEN /\ app_result' = "Ok"
                    /\ runState' = "CancelledByUser"
                    /\ pc' = "exit"
               ELSE /\ pc' = "draw"
                    /\ UNCHANGED <<app_result, runState>>
  /\ UNCHANGED <<cli, now, pressed, duration, pollStart, nPoll, nDraw, notifications, termVars, outVars, frameVars>>

\* lines 138-149: terminal.draw fails before the closure runs, or runs it and
\* then succeeds or fails; the closure samples the clock again, skips the
\* frame when the duration has been exceeded and calls draw_timer otherwise
Draw ==
  /\ pc = "draw"
  /\ nDraw' = nDraw + 1
  /\ \E fail \in {"none", "before", "after"}, width \in Widths :
       LET elapsed_time == now
           percent == Percent(elapsed_time, duration)
           time_left == DurSub(duration, elapsed_time)
           after == IF fail = "after"
                    THEN ReturnErr("Draw")
                    ELSE pc' = "loop_cond" /\ UNCHANGED <<app_result, runState>>
       IN IF fail = "before"
          THEN ReturnErr("Draw") /\ UNCHANGED frameVars
          ELSE IF DrawSkipped(elapsed_time, duration)
          THEN after /\ UNCHANGED frameVars
          ELSE \E outcome \in RenderOutcomes(percent, width) :
                 LET panics == outcome = "panic" \/ time_left = SubPanic IN
                 /\ lastFrame' =
                      [percent |-> percent, elapsed |-> elapsed_time,
                       time_left |-> time_left, width |-> width,
                       outcome |-> IF panics THEN "panic" ELSE "ok"]
                 /\ prevPercent' = lastFrame.percent
                 /\ IF panics
                    THEN /\ pc' = "panic"
                         /\ runState' = "Panicked"
                         /\ UNCHANGED app_result
                    ELSE after
  /\ UNCHANGED <<cli, envVars, duration, pollStart, nPoll, nRead,
                 notifications, termVars, outVars>>

\* an end of run_timer that notifies without looking at cli.notify
NotifyEndUnconditional ==
  /\ pc = "notify_end"
  /\ notifications' = Append(notifications, "over")
  /\ app_result' = "Ok"
  /\ pc' = "exit"
  /\ UNCHANGED <<cli, envVars, duration, loopVars, termVars, runState, outVars,
                 frameVars>>

\* lines 151-154: the "is over" notification, then Ok(())
NotifyEnd ==
  /\ pc = "notify_end"
  /\ notifications' =
       (IF cli.notify THEN Append(notifications, "over") ELSE notifications)
  /\ app_result' = "Ok"
  /\ pc' = "exit"
  /\ UNCHANGED <<cli, envVars, duration, loopVars, termVars, runState, outVars,
                 frameVars>>

Next ==
  \/ Advance
  \/ UserInput
  \/ MainInit
  \/ RunParse
  \/ NotifyStart
  \/ LoopCond
  \/ PollBegin
  \/ PollEnd
  \/ Read
  \/ Draw
  \/ NotifyEnd
  \/ Exit
  \/ MainReport
  \/ PanicHook

Spec == Init /\ [][Next]_vars


(***************************************************************************)
(* Timer::render on its own: draw_timer is public and takes any u16        *)
(* percent and any frame width.                                            *)
(***************************************************************************)
RenderWidths == {0, 1, 2, 3, 7, 50, 100}

InitRender ==
  /\ cli \in [duration : {<<"1">>}, notify : {TRUE}]
  /\ pc = "render"
  /\ now = DurZero
  /\ duration = DurZero
  /\ queue = <<>>
  /\ pressed = 0
  /\ pollStart = DurZero
  /\ nPoll = 0
  /\ nRead = 0
  /\ nDraw = 0
  /\ notifications = <<>>
  /\ rawMode = TRUE
  /\ altScreen = TRUE
  /\ cursorHidden = TRUE
  /\ hookSet = TRUE
  /\ runState = "Idle"
  /\ app_result = "none"
  /\ exitRan = "no"
  /\ stderr = <<>>
  /\ exitCode = -1
  /\ \E percent \in 0..MaxPercent, width \in RenderWidths :
       lastFrame = [percent |-> percent, elapsed |-> DurZero,
                    time_left |-> DurZero, width |-> width,
                    outcome |-> "pending"]
  /\ prevPercent = -1

\* frame.render_widget(timer, render_area)
RenderCall ==
  /\ pc = "render"
  /\ \E outcome \in RenderOutcomes(lastFrame.percent, lastFrame.width) :
       lastFrame' = [lastFrame EXCEPT !.outcome = outcome]
  /\ pc' = "rendered"
  /\ UNCHANGED <<cli, envVars, duration, loopVars, notifications, termVars,
                 runState, app_result, outVars, prevPercent>>

NextRender == RenderCall

SpecRender == InitRender /\ [][NextRender]_vars


(***************************************************************************)
(* The remaining-time text of Timer::render on its own, for any Duration.  *)
(***************************************************************************)
\* format!("{:.2}", x) for an f32 below 1: its hundredths, the exact value
\* rounded to nearest, ties to even
Hundredths(x) ==
  IF x.m <= 0 THEN 0
  ELSE LET k == -x.e
           n == x.m * 100
       IN IF k >= 31 THEN (IF k = 31 /\ n > 2^30 THEN 1 ELSE 0)
          ELSE LET q == n \div 2^k
                   r == n % 2^k
                   half == 2^(k - 1)
               IN IF r > half \/ (r = half /\ q % 2 = 1) THEN q + 1 ELSE q

\* lines 216-225: the text shown after "Time left: "
TimeLeftText(time_left) ==
  LET secs_f32 == AsSecsF32(time_left) IN
  IF F32Lt(secs_f32, F32FromInt(1))
  THEN [style |-> "fraction", hundredths |-> Hundredths(secs_f32),
        h |-> 0, m |-> 0, s |-> 0]
  ELSE [style |-> "hms", hundredths |-> 0,
        h |-> time_left.secs \div 3600,
        m |-> (time_left.secs \div 60) % 60,
        s |-> time_left.secs % 60]

TimeLefts ==
  { Dur(s, n) : s \in {0, 1, 59, 60, 3599, 3600, 3661, 86399, 86400, 360000},
                n \in {0, 1, 4999999, 370000000, 500000000, 994999999,
                       999999935, 999999967, 999999968, 999999999} }

InitFormat ==
  /\ cli \in [duration : {<<"1">>}, notify : {TRUE}]
  /\ pc = "render"
  /\ now = DurZero
  /\ duration = DurZero
  /\ queue = <<>>
  /\ pressed = 0
  /\ pollStart = DurZero
  /\ nPoll = 0
  /\ nRead = 0
  /\ nDraw = 0
  /\ notifications = <<>>
  /\ rawMode = TRUE
  /\ altScreen = TRUE
  /\ cursorHidden = TRUE
  /\ hookSet = TRUE
  /\ runState = "Idle"
  /\ app_result = "none"
  /\ exitRan = "no"
  /\ stderr = <<>>
  /\ exitCode = -1
  /\ \E time_left \in TimeLefts :
       lastFrame = [percent |-> 50, elapsed |-> DurZero,
                    time_left |-> time_left, width |-> 50,
                    outcome |-> "pending"]
  /\ prevPercent = -1

SpecFormat == InitFormat /\ [][NextRender]_vars


(***************************************************************************)
(* Properties.                                                             *)
(***************************************************************************)
\* number of "is over" notifications shown
OverCount ==
  Cardinality({i \in DOMAIN notifications : notifications[i] = "over"})

\* run_timer's error messages among what was written to standard error
ErrorKinds == {"UnknownUnit", "Draw", "Terminal"}
ReportedErrors == {stderr[i] : i \in DOMAIN stderr} \cap ErrorKinds

\* a call of draw_timer has happened
FrameDrawn == lastFrame.outcome \in {"ok", "panic"}

\* C1: a successful read of a key event with code Esc, 'q' or 'Q' makes
\* run_timer return as CancelledByUser in that very step, and once the run
\* is CancelledByUser there is no further poll, read, draw or notification
\* and no "is over" notification has been shown, whatever cli.notify is.
C1_CancelExitsAtOnce ==
  [][ /\ ( /\ pc = "read"
           /\ nRead' = nRead + 1
           /\ queue # <<>>
           /\ queue' = Tail(queue)
           /\ Head(queue).kind = "Key"
           /\ Head(queue).code \in {"Esc", "q", "Q"} )
         => (runState' = "CancelledByUser" /\ pc' = "exit" /\ app_result' = "Ok")
      /\ runState = "CancelledByUser"
         => /\ nPoll' = nPoll
            /\ nRead' = nRead
            /\ nDraw' = nDraw
            /\ notifications' = notifications
            /\ OverCount = 0
            /\ pc' \in {"exit", "report", "done"} ]_vars

C1_Witness ==
  /\ runState = "CancelledByUser"
  /\ pc = "done"
  /\ cli.notify
  /\ nDraw >= 1
  /\ notifications = <<"started">>

\* C2: the "is over" notification is shown at most once; it is shown only in
\* a run that left the loop as CompletedNormally with notify enabled, and
\* every such run has shown it exactly once by the time run_timer returns.
C2_FinishedNotification ==
  /\ OverCount <= 1
  /\ OverCount = 1 => (runState = "CompletedNormally" /\ cli.notify)
  /\ (pc \in {"exit", "report", "done"} /\ runState = "CompletedNormally" /\ cli.notify)
       => OverCount = 1

C2_Witness ==
  /\ pc = "done"
  /\ runState = "CompletedNormally"
  /\ nDraw >= 1
  /\ notifications = <<"started", "over">>

\* C3: however run_timer returned (Ok after completion or cancellation, or
\* any Err), main has called exit before it goes on; an exit whose calls all
\* succeed leaves the cursor shown, raw mode off and the alternate screen
\* left; and run_timer's error message is on standard error only after such
\* an exit.
C3_CleanupBeforeReport ==
  /\ (app_result # "none" /\ pc \in {"report", "done"}) => exitRan # "no"
  /\ (exitRan = "ok" /\ pc \in {"report", "done"})
       => (~cursorHidden /\ ~rawMode /\ ~altScreen)
  /\ ReportedErrors # {}
       => (exitRan = "ok" /\ ~cursorHidden /\ ~rawMode /\ ~altScreen)

C3_Witness ==
  /\ pc = "done"
  /\ app_result = "Draw"
  /\ ReportedErrors = {"Draw"}
  /\ exitRan = "ok"

\* C4: when main has finished after a successful exit, the exit code is 0 if
\* run_timer returned Ok and nonzero if run_timer returned an error.
C4_ExitCodeReflectsResult ==
  (pc = "done" /\ exitRan = "ok")
    => /\ app_result = "Ok" => exitCode = 0
       /\ app_result \in ErrorKinds => exitCode # 0

\* C5: in a run whose duration token is malformed, raw mode is never on and
\* the alternate screen is never entered, and the process ends with a
\* nonzero exit code after the invalid-duration message.
C5_RejectedBeforeTerminalModes ==
  ResolveDuration(cli.duration) = ParseErr
    => /\ ~rawMode
       /\ ~altScreen
       /\ (pc = "done" /\ exitRan = "ok")
            => (exitCode # 0 /\ "UnknownUnit" \in ReportedErrors)

\* C6: the percent of every frame is in 0..100, is not below the percent of
\* the frame before it, and is 100 only when the frame's sampled elapsed
\* time has reached the duration.
C6_PercentOfFrames ==
  FrameDrawn
    => /\ lastFrame.percent \in 0..100
       /\ prevPercent <= lastFrame.percent
       /\ lastFrame.percent = 100 => DurLe(duration, lastFrame.elapsed)

\* C7: every call of draw_timer has elapsed <= duration and receives
\* time_left = duration - elapsed, a subtraction that does not underflow.
C7_RemainingNeverNegative ==
  FrameDrawn
    => /\ DurLe(lastFrame.elapsed, duration)
       /\ lastFrame.time_left # SubPanic
       /\ lastFrame.time_left.secs >= 0
       /\ lastFrame.time_left.nanos >= 0
       /\ DurAdd(lastFrame.elapsed, lastFrame.time_left) = duration

C7_Witness ==
  /\ FrameDrawn
  /\ nDraw >= 2
  /\ duration # DurZero
  /\ lastFrame.elapsed = duration
  /\ lastFrame.time_left = DurZero

\* C8: for a percent in 0..100 and any width, every gradient index the fill
\* loop reads lies in 0..steps-1, and with width 0 no cell is filled and the
\* table is not read.
C8_GradientIndexInBounds ==
  (FrameDrawn /\ lastFrame.percent \in 0..100)
    => /\ \A idx \in GradientReads(lastFrame.percent, lastFrame.width) :
            idx \in 0..(steps - 1)
       /\ FillPanicAt(0, CellsToDraw(lastFrame.percent, lastFrame.width),
                      lastFrame.width) = -1
       /\ lastFrame.width = 0
            => /\ CellsToDraw(lastFrame.percent, lastFrame.width) = 0
               /\ GradientReads(lastFrame.percent, lastFrame.width) = {}

C8_Witness ==
  /\ pc = "rendered"
  /\ lastFrame.percent = 100
  /\ lastFrame.width = 100
  /\ lastFrame.outcome = "ok"
  /\ CellsToDraw(100, 100) = 100
  /\ 99 \in GradientReads(100, 100)

\* C9: for a percent in 0..100 and any width, width 0 and widths shorter than
\* the label included, render ends without a panic and the label's cells
\* width - len .. width - 1 lie inside the row.
C9_LabelFitsAnyWidth ==
  (FrameDrawn /\ lastFrame.percent \in 0..100)
    => /\ lastFrame.outcome = "ok"
       /\ ~LabelUnderflows(lastFrame.percent, lastFrame.width)
       /\ LabelCol(lastFrame.percent, lastFrame.width)
            + LabelLen(lastFrame.percent) <= lastFrame.width

\* C10: for a percent above 100 and a width of at least 1, the number of
\* filled cells does not exceed the width, every gradient index read is
\* inside the table and every filled cell is inside the row.
C10_PercentAbove100Clamped ==
  (FrameDrawn /\ lastFrame.percent > 100 /\ lastFrame.width >= 1)
    => /\ CellsToDraw(lastFrame.percent, lastFrame.width) <= lastFrame.width
       /\ \A idx \in GradientReads(lastFrame.percent, lastFrame.width) :
            idx \in 0..(steps - 1)
       /\ FilledCells(lastFrame.percent, lastFrame.width)
            \subseteq 0..(lastFrame.width - 1)

\* C11: every call of event::poll, event::read or terminal.draw either
\* succeeds or makes run_timer return at once with Terminal (poll, read) or
\* Draw (draw); once run_timer has failed there is no further poll, read, draw
\* or notification, and no "is over" notification has been shown.
C11_IoFailureIsFatal ==
  [][ /\ nPoll' = nPoll + 1
         => \/ pc' = "poll_wait"
            \/ (pc' = "exit" /\ app_result' = "Terminal" /\ runState' = "Failed")
      /\ nRead' = nRead + 1
         => \/ queue' = Tail(queue)
            \/ (pc' = "exit" /\ app_result' = "Terminal" /\ runState' = "Failed")
      /\ nDraw' = nDraw + 1
         => \/ pc' \in {"loop_cond", "panic"}
            \/ (pc' = "exit" /\ app_result' = "Draw" /\ runState' = "Failed")
      /\ runState = "Failed"
         => /\ nPoll' = nPoll
            /\ nRead' = nRead
            /\ nDraw' = nDraw
            /\ notifications' = notifications
            /\ OverCount = 0
            /\ app_result' = app_result
            /\ pc' \in {"exit", "report", "done"} ]_vars

C11_Witness ==
  /\ pc = "done"
  /\ runState = "Failed"
  /\ app_result = "Terminal"
  /\ nPoll >= 2
  /\ nDraw >= 1
  /\ notifications = <<"started">>
  /\ ReportedErrors = {"Terminal"}

\* C12: the loop exits as CompletedNormally only with elapsed >= duration
\* and no later than one poll timeout after the duration, and a run that
\* started, was not cancelled and met no I/O failure ends CompletedNormally.
C12_CompletesWithinOnePollWindow ==
  [][ /\ (runState = "Running" /\ runState' = "CompletedNormally")
         => /\ DurLe(duration, now)
            /\ DurLe(now, DurAdd(duration, PollTimeout))
      /\ (pc' = "done" /\ runState' \notin {"Idle", "CancelledByUser", "Failed"})
         => runState' = "CompletedNormally" ]_vars

\* the malformed duration arguments among Tokens
MalformedTokens ==
  { <<"b", "a", "n", "a", "n", "a">>, <<"-", "5">>, <<"5", "x">> }

\* C13: in a run with a malformed duration token no notification is shown,
\* the input is never polled or read, no frame is drawn, and run_timer
\* returns the invalid-duration error straight from the parse.
C13_MalformedStopsAtParse ==
  cli.duration \in MalformedTokens
    => /\ notifications = <<>>
       /\ nPoll = 0
       /\ nRead = 0
       /\ nDraw = 0
       /\ lastFrame = NoFrame
       /\ pc \in {"init", "parse", "exit", "report", "done"}
       /\ pc \in {"exit", "report"} => (app_result = "UnknownUnit" /\ runState = "Failed")
       /\ app_result \in {"none", "UnknownUnit"}

C13_Witness ==
  /\ pc = "done"
  /\ cli.duration = <<"5", "x">>
  /\ cli.notify
  /\ app_result = "UnknownUnit"
  /\ ReportedErrors = {"UnknownUnit"}
  /\ notifications = <<>>

\* C14: when the process has ended, raw mode is off and the alternate screen
\* has been left, whichever way it ended (initialize failing part-way, exit
\* failing at show_cursor, a panic in the loop, or a normal return).
C14_TerminalRestoredOnEveryExit ==
  pc = "done" => (~rawMode /\ ~altScreen)

\* C15: no run is CompletedNormally, and no "is over" notification is shown,
\* while a cancel key produced before the duration elapsed is still unread.
C15_EarlyCancelNeverIgnored ==
  (runState = "CompletedNormally" \/ OverCount > 0)
    => ~ \E i \in DOMAIN queue :
           /\ queue[i].kind = "Key"
           /\ queue[i].code \in {"Esc", "q", "Q"}
           /\ queue[i].early

\* C16: for a percent in 0..100 and a width of at least 1, a render that ends
\* without a panic fills exactly floor(percent * width / 100) cells, the
\* leftmost ones, and reads gradient entry floor(i * steps / width) for
\* filled cell i.
C16_FillIsExactFloor ==
  (lastFrame.outcome = "ok" /\ lastFrame.percent \in 0..100
     /\ lastFrame.width >= 1)
    => LET cells == (lastFrame.percent * lastFrame.width) \div 100
       IN /\ CellsToDraw(lastFrame.percent, lastFrame.width) = cells
          /\ FilledCells(lastFrame.percent, lastFrame.width) = 0..(cells - 1)
          /\ \A i \in FilledCells(lastFrame.percent, lastFrame.width) :
               GradientIndex(i, lastFrame.width)
                 = (i * steps) \div lastFrame.width

\* C17: event::read is called only after the poll of the same iteration found
\* an event, at most once per poll; reading an event that is not a cancel key
\* leaves the loop Running and goes on to the draw of that iteration; and the
\* loop leaves Running only by reading a cancel key, by the loop condition
\* finding elapsed >= duration, or by an I/O error.
C17_LoopLeavesRunningThreeWays ==
  [][ /\ nRead' = nRead + 1
         => (pc = "read" /\ queue # <<>> /\ nRead' <= nPoll)
      /\ ( /\ pc = "read"
           /\ queue # <<>>
           /\ queue' = Tail(queue)
           /\ ~ ( /\ Head(queue).kind = "Key"
                  /\ Head(queue).code \in {"Esc", "q", "Q"} ) )
         => (runState' = "Running" /\ pc' = "draw")
      /\ (runState = "Running" /\ runState' # "Running")
         => \/ /\ runState' = "CancelledByUser"
               /\ pc = "read"
               /\ Head(queue).kind = "Key"
               /\ Head(queue).code \in {"Esc", "q", "Q"}
            \/ /\ runState' = "CompletedNormally"
               /\ pc = "loop_cond"
               /\ DurLe(duration, now)
            \/ /\ runState' = "Failed"
               /\ app_result' \in {"Terminal", "Draw"} ]_vars

\* number of "has started" notifications shown
StartedCount ==
  Cardinality({i \in DOMAIN notifications : notifications[i] = "started"})

\* C18: with notify on, nothing is notified until the duration is resolved,
\* and from the moment the loop is entered "started" has been shown exactly
\* once, as the first notification, so before any poll and any draw; with
\* notify off nothing is ever notified.
C18_StartedOnceBeforeLoop ==
  /\ ~cli.notify => notifications = <<>>
  /\ StartedCount <= 1
  /\ (pc \in {"init", "parse", "notify_start"} \/ runState = "Idle")
       => notifications = <<>>
  /\ notifications # <<>>
       => /\ duration = ResolveDuration(cli.duration)
          /\ duration # ParseErr
          /\ notifications[1] = "started"
  /\ (cli.notify /\ (runState \in {"Running", "CancelledByUser",
                                    "CompletedNormally", "Panicked"}
                      \/ nPoll > 0 \/ nDraw > 0))
       => (StartedCount = 1 /\ notifications[1] = "started")

C18_Witness ==
  /\ cli.notify
  /\ pc = "loop_cond"
  /\ nPoll >= 2
  /\ nDraw >= 2
  /\ notifications = <<"started">>

\* C19: a remaining time below one second is shown as fractional seconds,
\* and a remaining time of one second or more as HHh:MMm:SSs with
\* hours = secs / 3600, minutes = secs / 60 mod 60 and seconds = secs mod 60.
C19_FormatSwitchesAtOneSecond ==
  FrameDrawn
    => LET time_left == lastFrame.time_left
           text == TimeLeftText(time_left)
       IN IF DurLt(time_left, Dur(1, 0))
          THEN text.style = "fraction"
          ELSE /\ text.style = "hms"
               /\ text.h = time_left.secs \div 3600
               /\ text.m = (time_left.secs \div 60) % 60
               /\ text.s = time_left.secs % 60

\* C20: with the duration "0" the loop body never runs: no poll, no read, no
\* draw and so no percent is ever computed; the loop ends as
\* CompletedNormally, and once run_timer has returned its result is Ok and
\* the notifications are "started" then "over" with notify on, none with
\* notify off.
C20_ZeroDurationSkipsLoop ==
  cli.duration = <<"0">>
    => /\ nPoll = 0 /\ nRead = 0 /\ nDraw = 0
       /\ lastFrame = NoFrame
       /\ pc \notin {"poll", "poll_wait", "read", "draw", "panic"}
       /\ runState \in {"Idle", "Running", "CompletedNormally"}
       /\ pc \in {"notify_start", "loop_cond"} => duration = DurZero
       /\ runState = "CompletedNormally" /\ pc # "notify_end"
            => /\ app_result = "Ok"
               /\ notifications = (IF cli.notify THEN <<"started", "over">>
                                                 ELSE <<>>)
       /\ (pc \in {"exit", "report", "done"} /\ runState # "Idle")
            => runState = "CompletedNormally"

C20_Witness ==
  /\ cli.duration = <<"0">>
  /\ cli.notify
  /\ pc = "done"
  /\ runState = "CompletedNormally"
  /\ notifications = <<"started", "over">>
  /\ nPoll = 0
  /\ now # DurZero
  /\ exitCode = 0

====
